---- MODULE Spec2Model ----
(***************************************************************************)
(* A model of zipped-imgs-to-pdf: the sorter (shared/sorting_logic.py),    *)
(* the secure archive extractor, the page compositor, the processing of    *)
(* one archive, the recursive search for archives and the loop of main     *)
(* (python/zipped_imgs_to_pdf.py).                                         *)
(*                                                                         *)
(* A Python str is a sequence of one-character strings; Path semantics are *)
(* those of PurePosixPath.                                                 *)
(***************************************************************************)
EXTENDS Integers, Sequences, FiniteSets, TLC

(***************************************************************************)
(* Characters and strings                                                  *)
(***************************************************************************)

\* ord(c): the code point Python compares characters by.
Ord(c) ==
  CASE c = "!" -> 33  [] c = "." -> 46  [] c = "/" -> 47
    [] c = "0" -> 48  [] c = "1" -> 49  [] c = "2" -> 50
    [] c = "@" -> 64  [] c = "G" -> 71  [] c = "I" -> 73  [] c = "J" -> 74
    [] c = "P" -> 80  [] c = "Z" -> 90
    [] c = "a" -> 97  [] c = "b" -> 98  [] c = "c" -> 99  [] c = "d" -> 100
    [] c = "f" -> 102 [] c = "g" -> 103 [] c = "i" -> 105 [] c = "j" -> 106
    [] c = "n" -> 110 [] c = "p" -> 112 [] c = "t" -> 116 [] c = "x" -> 120
    [] c = "z" -> 122 [] c = "²" -> 178

\* A decimal digit: what \d of a regular expression matches and int() reads.
IsDecimal(c) == c \in {"0", "1", "2"}

\* str.isdigit() of one character: the decimal digits and other digit
\* characters such as the superscript two.
IsDigit(c) == IsDecimal(c) \/ c = "²"

\* str.lower() of one character.
LowerChar(c) ==
  CASE c = "G" -> "g" [] c = "I" -> "i" [] c = "J" -> "j" [] c = "N" -> "n"
    [] c = "P" -> "p" [] c = "Z" -> "z" [] OTHER -> c

\* str.lower()
Lower(s) == [i \in 1..Len(s) |-> LowerChar(s[i])]

\* Python's s < t on str: lexicographic by code point, a proper prefix first.
RECURSIVE StrLess(_, _)
StrLess(s, t) ==
  IF t = <<>> THEN FALSE
  ELSE IF s = <<>> THEN TRUE
  ELSE IF s[1] # t[1] THEN Ord(s[1]) < Ord(t[1])
  ELSE StrLess(Tail(s), Tail(t))

\* s.startswith(p)
StartsWith(s, p) == Len(p) <= Len(s) /\ SubSeq(s, 1, Len(p)) = p

\* sub in s
Contains(s, sub) ==
  \E i \in 1..(Len(s) - Len(sub) + 1) : SubSeq(s, i, i + Len(sub) - 1) = sub

\* s.split('/')
RECURSIVE SplitSlash(_)
SplitSlash(s) ==
  IF \A i \in 1..Len(s) : s[i] # "/" THEN <<s>>
  ELSE LET k == CHOOSE i \in 1..Len(s) :
                  s[i] = "/" /\ \A j \in 1..(i - 1) : s[j] # "/"
       IN <<SubSeq(s, 1, k - 1)>> \o SplitSlash(SubSeq(s, k + 1, Len(s)))

\* '/'.join(parts)
RECURSIVE JoinSlash(_)
JoinSlash(parts) ==
  IF parts = <<>> THEN <<>>
  ELSE IF Len(parts) = 1 THEN parts[1]
  ELSE parts[1] \o <<"/">> \o JoinSlash(Tail(parts))

\* The parts PurePosixPath keeps of a path string: empty and '.' components
\* are dropped, '..' is kept.
PathParts(s) == SelectSeq(SplitSlash(s), LAMBDA c : c # <<>> /\ c # <<".">>)

\* Path(s).name: the final component, '' when there is none.
PathName(s) ==
  LET parts == PathParts(s)
  IN IF parts = <<>> THEN <<>> ELSE parts[Len(parts)]

\* Path(s).suffix: from the last '.' of the name, '' when the name has no '.',
\* starts with its only '.', or ends with one.
PathSuffix(s) ==
  LET name == PathName(s)
      dots == {i \in 1..Len(name) : name[i] = "."}
  IN IF dots = {} THEN <<>>
     ELSE LET k == CHOOSE i \in dots : \A j \in dots : j <= i
          IN IF k = 1 \/ k = Len(name) THEN <<>>
             ELSE SubSeq(name, k, Len(name))

(***************************************************************************)
(* shared/constants.py                                                     *)
(***************************************************************************)

IMAGE_EXTENSIONS ==
  { <<".", "j", "p", "g">>, <<".", "j", "p", "e", "g">>, <<".", "p", "n", "g">>,
    <<".", "g", "i", "f">>, <<".", "b", "m", "p">>, <<".", "t", "i", "f", "f">>,
    <<".", "w", "e", "b", "p">> }

DEFAULT_PRIORITY_CHARS == <<"!">>

\* 100 * 1024 * 1024
MAX_FILE_SIZE_BYTES == 104857600

\* 500 * 1024 * 1024
MAX_EXTRACTED_SIZE_BYTES == 524288000

(***************************************************************************)
(* shared/sorting_logic.py                                                 *)
(***************************************************************************)

\* An is_image_file that takes every name with a suffix.
is_image_file_any_suffix(filename) == PathSuffix(filename) # <<>>

is_image_file(filename) == Lower(PathSuffix(filename)) \in IMAGE_EXTENSIONS

\* int(chunk) of a run of decimal digits.
RECURSIVE IntOf(_)
IntOf(chunk) ==
  IF chunk = <<>> THEN 0
  ELSE 10 * IntOf(SubSeq(chunk, 1, Len(chunk) - 1))
       + (Ord(chunk[Len(chunk)]) - Ord("0"))

\* The length of the longest prefix of s that \d+ matches (digit = TRUE) or
\* that holds no match of \d (digit = FALSE).
RECURSIVE RunLen(_, _)
RunLen(s, digit) ==
  IF s = <<>> \/ IsDecimal(s[1]) # digit THEN 0
  ELSE 1 + RunLen(Tail(s), digit)

\* A split that drops the empty strings.
RECURSIVE ReSplitDigitsNoEmpty(_)
ReSplitDigitsNoEmpty(text) ==
  IF text = <<>> THEN <<>>
  ELSE LET n == IF RunLen(text, FALSE) > 0 THEN RunLen(text, FALSE)
                ELSE RunLen(text, TRUE)
       IN <<SubSeq(text, 1, n)>>
          \o ReSplitDigitsNoEmpty(SubSeq(text, n + 1, Len(text)))

\* re.split(r'\d+', text), without the group: the digit runs are dropped.
RECURSIVE ReSplitDigitsNoGroup(_)
ReSplitDigitsNoGroup(text) ==
  LET n    == RunLen(text, FALSE)
      rest == SubSeq(text, n + 1, Len(text))
      d    == RunLen(rest, TRUE)
  IN IF rest = <<>> THEN <<SubSeq(text, 1, n)>>
     ELSE <<SubSeq(text, 1, n)>>
          \o ReSplitDigitsNoGroup(SubSeq(rest, d + 1, Len(rest)))

\* re.split(r'(\d+)', text): the non-digit runs (possibly empty at either end)
\* with the digit runs between them.
RECURSIVE ReSplitDigits(_)
ReSplitDigits(text) ==
  LET n    == RunLen(text, FALSE)
      rest == SubSeq(text, n + 1, Len(text))
      d    == RunLen(rest, TRUE)
  IN IF rest = <<>> THEN <<SubSeq(text, 1, n)>>
     ELSE <<SubSeq(text, 1, n), SubSeq(rest, 1, d)>>
          \o ReSplitDigits(SubSeq(rest, d + 1, Len(rest)))

\* chunk.isdigit()
StrIsDigit(chunk) == chunk # <<>> /\ \A i \in 1..Len(chunk) : IsDigit(chunk[i])

\* A convert that leaves digit runs as text.
convert_keeps_text(chunk) == <<"str", chunk>>

\* convert(chunk): an int segment <<"int", n>> or a str segment <<"str", s>>;
\* <<"ValueError", chunk>> when chunk.isdigit() holds and int(chunk) raises.
convert(chunk) ==
  IF StrIsDigit(chunk)
    THEN IF \A i \in 1..Len(chunk) : IsDecimal(chunk[i])
           THEN <<"int", IntOf(chunk)>>
           ELSE <<"ValueError", chunk>>
    ELSE <<"str", chunk>>

\* The key natural_sort_key(text) returns; a segment <<"ValueError", chunk>>
\* stands for the ValueError it raises instead.
natural_sort_key(text) ==
  LET chunks == ReSplitDigits(text)
  IN [i \in 1..Len(chunks) |-> convert(chunks[i])]

\* Python's comparison of two key segments: "lt", "eq", "gt", or "TypeError"
\* for an int against a str that are to be ordered.
SegCmp(a, b) ==
  IF a[1] # b[1] THEN "TypeError"
  ELSE IF a[1] = "int"
    THEN (IF a[2] < b[2] THEN "lt" ELSE IF a[2] = b[2] THEN "eq" ELSE "gt")
    ELSE (IF a[2] = b[2] THEN "eq" ELSE IF StrLess(a[2], b[2]) THEN "lt" ELSE "gt")

\* Python's comparison of two lists: the first pair of unequal segments
\* decides, a proper prefix comes first.
RECURSIVE ListCmp(_, _)
ListCmp(k1, k2) ==
  IF k1 = <<>> /\ k2 = <<>> THEN "eq"
  ELSE IF k1 = <<>> THEN "lt"
  ELSE IF k2 = <<>> THEN "gt"
  ELSE LET c == SegCmp(k1[1], k2[1])
       IN IF c = "eq" THEN ListCmp(Tail(k1), Tail(k2)) ELSE c

get_natural_sort_key(x) == natural_sort_key(PathName(x))

\* A name key that splits the basename as the natural key does.
get_name_key_natural(x) == natural_sort_key(PathName(x))

get_name_key(x) == <<<<"str", PathName(x)>>>>

\* The key sort_images sorts a group by.
SortKey(x, use_natural_sort) ==
  IF use_natural_sort THEN get_natural_sort_key(x) ELSE get_name_key(x)

\* An insertion that puts an element in front of the elements equal to it.
RECURSIVE StableInsertBeforeEqual(_, _, _)
StableInsertBeforeEqual(sorted, x, nat) ==
  IF sorted = <<>> THEN <<x>>
  ELSE IF ListCmp(SortKey(x, nat), SortKey(sorted[Len(sorted)], nat))
            \in {"lt", "eq"}
    THEN StableInsertBeforeEqual(SubSeq(sorted, 1, Len(sorted) - 1), x, nat)
         \o <<sorted[Len(sorted)]>>
    ELSE Append(sorted, x)

\* list.sort(key=...): a stable sort, one element at a time put behind every
\* element that is not greater than it.
RECURSIVE StableInsert(_, _, _)
StableInsert(sorted, x, nat) ==
  IF sorted = <<>> THEN <<x>>
  ELSE IF ListCmp(SortKey(x, nat), SortKey(sorted[Len(sorted)], nat)) = "lt"
    THEN StableInsert(SubSeq(sorted, 1, Len(sorted) - 1), x, nat)
         \o <<sorted[Len(sorted)]>>
    ELSE Append(sorted, x)

RECURSIVE ListSort(_, _)
ListSort(files, nat) ==
  IF files = <<>> THEN <<>>
  ELSE StableInsert(ListSort(SubSeq(files, 1, Len(files) - 1), nat),
                    files[Len(files)], nat)

\* natural_sort_key(text) raises ValueError.
KeyRaises(key) == \E i \in 1..Len(key) : key[i][1] = "ValueError"

\* list.sort raises what the key function raises for an element, and
\* TypeError when two keys of the list cannot be ordered.
SortRaises(files, nat) ==
  \/ \E i \in 1..Len(files) : KeyRaises(SortKey(files[i], nat))
  \/ \E i, j \in 1..Len(files) :
       ListCmp(SortKey(files[i], nat), SortKey(files[j], nat)) = "TypeError"

\* The exception list.sort raises.
SortException(files, nat) ==
  IF \E i \in 1..Len(files) : KeyRaises(SortKey(files[i], nat))
    THEN "ValueError"
    ELSE IF SortRaises(files, nat) THEN "TypeError" ELSE "none"

\* An is_priority that tests filename.startswith(priority_chars), the whole
\* string at once.
is_priority_whole_string(img, priority_chars) ==
  priority_chars # <<>> /\ StartsWith(PathName(img), priority_chars)

\* An is_priority that falls back to DEFAULT_PRIORITY_CHARS when
\* priority_chars is empty.
is_priority_default_when_empty(img, priority_chars) ==
  LET chars == IF priority_chars # <<>> THEN priority_chars
               ELSE DEFAULT_PRIORITY_CHARS
  IN \E i \in 1..Len(chars) : StartsWith(PathName(img), <<chars[i]>>)

\* is_priority of sort_images' loop.
is_priority(img, priority_chars) ==
  LET filename == PathName(img)
  IN IF priority_chars # <<>>
       THEN \E i \in 1..Len(priority_chars) :
              StartsWith(filename, <<priority_chars[i]>>)
       ELSE FALSE

\* A priority list that takes every file.
priority_files_all(image_files, priority_chars) == image_files

priority_files(image_files, priority_chars) ==
  SelectSeq(image_files, LAMBDA img : is_priority(img, priority_chars))

\* A partition that puts each normal file in front of those collected so far.
normal_files_prepended(image_files, priority_chars) ==
  LET nf == SelectSeq(image_files, LAMBDA img : ~is_priority(img, priority_chars))
  IN [i \in 1..Len(nf) |-> nf[Len(nf) + 1 - i]]

normal_files(image_files, priority_chars) ==
  SelectSeq(image_files, LAMBDA img : ~is_priority(img, priority_chars))

\* sort_images: [raised |-> TRUE] when list.sort raises, else the list.
sort_images(image_files, use_natural_sort, priority_chars) ==
  LET pf == priority_files(image_files, priority_chars)
      nf == normal_files(image_files, priority_chars)
  IN IF SortRaises(pf, use_natural_sort) \/ SortRaises(nf, use_natural_sort)
       THEN [raised |-> TRUE,
             exc    |-> IF SortRaises(pf, use_natural_sort)
                          THEN SortException(pf, use_natural_sort)
                          ELSE SortException(nf, use_natural_sort),
             value  |-> <<>>]
       ELSE [raised |-> FALSE,
             exc    |-> "none",
             value  |-> ListSort(pf, use_natural_sort)
                        \o ListSort(nf, use_natural_sort)]

(***************************************************************************)
(* Paths of the extractor                                                  *)
(***************************************************************************)

\* str(Path(s)): empty and '.' components dropped, one '/' between the rest.
PathStr(s) ==
  (IF s # <<>> /\ s[1] = "/" THEN <<"/">> ELSE <<>>) \o JoinSlash(PathParts(s))

\* str(dir / name): an absolute name replaces dir.
PathJoin(dir, name) ==
  IF name # <<>> /\ name[1] = "/" THEN PathStr(name)
  ELSE PathStr(dir \o <<"/">> \o name)

\* str(Path(s).parent): the path without its final component, '.' for a
\* relative path of one component.
PathParent(s) ==
  LET parts == PathParts(s)
      root  == IF s # <<>> /\ s[1] = "/" THEN <<"/">> ELSE <<>>
  IN IF Len(parts) <= 1 THEN (IF root = <<>> THEN <<".">> ELSE root)
     ELSE root \o JoinSlash(SubSeq(parts, 1, Len(parts) - 1))

\* Path(s).stem: the name without its suffix.
PathStem(s) ==
  SubSeq(PathName(s), 1, Len(PathName(s)) - Len(PathSuffix(s)))

\* The file ZipFile.extract(member, path) writes: the member's name without
\* its empty, '.' and '..' components, below path.
ExtractTarget(dir, filename) ==
  LET arcname == SelectSeq(SplitSlash(filename),
                           LAMBDA c : c # <<>> /\ c # <<".">> /\ c # <<".", ".">>)
  IN PathStr(dir \o <<"/">> \o JoinSlash(arcname))

(***************************************************************************)
(* State                                                                   *)
(***************************************************************************)

VARIABLES
  sortCall,              \* a call of sort_images: its arguments and its result
  imageCall,             \* a call of is_image_file
  keyCall,               \* a call of natural_sort_key
  directory,             \* find_zip_files_recursive's argument and its tree
  fpc,                   \* where find_zip_files_recursive is
  zip_files,             \* the paths it has collected so far
  found,                 \* the list it returned
  zip_file,              \* the archive: how opening it ends, and its filelist
  use_natural_sort,      \* extract_images_from_zip's argument
  priority_chars,        \* extract_images_from_zip's argument
  xpc,                   \* where extract_images_from_zip is
  xidx,                  \* the index of the entry its running loop is at
  total_extracted_size,
  image_file_infos,
  image_files,
  written,               \* the files written so far, in order
  xresult,               \* the list extract_images_from_zip returned
  xerror,                \* the except clause that ended it, "none" if none
  image_paths,           \* convert_images_to_pdf's argument
  cpc,                   \* where convert_images_to_pdf is
  cidx,                  \* the index of the image its loop is at
  images,                \* the pages collected so far
  output_pdf,            \* the file at the destination path
  dest_openable,         \* whether the destination can be opened for writing
  save_error,            \* where Image.save failed, "none" if it did not
  pdf_opened,            \* whether the destination was opened for writing
  cret,                  \* what convert_images_to_pdf returned: "True", "False"
  zip_path,              \* process_zip_file's argument: the path and its file
  ppc,                   \* where process_zip_file is
  scratch,               \* the directory of tempfile.mkdtemp(): "none" before
                         \* it is created, then "exists" or "removed"
  presult,               \* how the try block of process_zip_file ended
  warned,                \* the warning that the directory could not be removed
  pret,                  \* how process_zip_file ended: "True", "False", "raised"
  output_dir,            \* process_zip_file's argument, None or a directory
  output_path,           \* the path process_zip_file computes for the PDF
  zip_files_to_process,  \* main: the archives collected from the arguments
  mpc,                   \* where main is
  midx,                  \* the index of the archive main's loop is at
  success_count,
  failure_count,
  calls,                 \* the archives process_zip_file was called with
  exit_status            \* the argument of sys.exit, "none" before the call

sortVars == <<sortCall>>

callVars == <<imageCall, keyCall>>

findVars == <<directory, fpc, zip_files, found>>

zipVars ==
  <<zip_file, use_natural_sort, priority_chars, xpc, xidx, total_extracted_size,
    image_file_infos, image_files, written, xresult, xerror>>

pdfVars ==
  <<image_paths, cpc, cidx, images, output_pdf, dest_openable, save_error,
    pdf_opened, cret>>

procVars ==
  <<zip_path, ppc, scratch, presult, warned, pret, output_dir, output_path>>

mainVars ==
  <<zip_files_to_process, mpc, midx, success_count, failure_count, calls,
    exit_status>>

vars == <<sortVars, callVars, findVars, zipVars, pdfVars, procVars, mainVars>>

\* The scratch directory the caller supplies (tempfile.mkdtemp()).
temp_dir == <<"/", "t">>

\* Python's None where a path may be given.
None == <<"None">>

\* The sequences over S of at most n elements.
SeqsUpTo(S, n) == UNION {[1..k -> S] : k \in 0..n}

\* The state of a function that is not running.
IdleSort ==
  sortCall = [image_files |-> <<>>, use_natural_sort |-> TRUE,
              priority_chars |-> DEFAULT_PRIORITY_CHARS,
              returned |-> FALSE, raised |-> FALSE, result |-> <<>>]

IdleImageCall ==
  imageCall = [filename |-> <<>>, returned |-> FALSE, result |-> FALSE]

IdleKeyCall ==
  keyCall = [text |-> <<>>, returned |-> FALSE, raised |-> FALSE, key |-> <<>>]

IdleCalls == IdleImageCall /\ IdleKeyCall

IdleFind ==
  /\ directory = [status |-> "ok", tree |-> {}]
  /\ fpc = "idle"
  /\ zip_files = <<>>
  /\ found = <<>>

IdleZip ==
  /\ zip_file = [open |-> "ok", filelist |-> <<>>]
  /\ use_natural_sort = TRUE
  /\ priority_chars = DEFAULT_PRIORITY_CHARS
  /\ xpc = "idle"
  /\ xidx = 0
  /\ total_extracted_size = 0
  /\ image_file_infos = <<>>
  /\ image_files = <<>>
  /\ written = <<>>
  /\ xresult = <<>>
  /\ xerror = "none"

IdlePdf ==
  /\ image_paths = <<>>
  /\ cpc = "idle"
  /\ cidx = 0
  /\ images = <<>>
  /\ output_pdf = [state |-> "absent", pages |-> <<>>]
  /\ dest_openable = TRUE
  /\ save_error = "none"
  /\ pdf_opened = FALSE
  /\ cret = "none"

IdleProc ==
  /\ zip_path = [path |-> <<>>, exists |-> FALSE, st_size |-> 0]
  /\ ppc = "idle"
  /\ scratch = "none"
  /\ presult = "none"
  /\ warned = FALSE
  /\ pret = "none"
  /\ output_dir = None
  /\ output_path = <<>>

IdleMain ==
  /\ zip_files_to_process = <<>>
  /\ mpc = "idle"
  /\ midx = 0
  /\ success_count = 0
  /\ failure_count = 0
  /\ calls = <<>>
  /\ exit_status = "none"

(***************************************************************************)
(* sort_images, called on its own                                          *)
(***************************************************************************)

\* The longest list sort_images is called with.
MaxImages == 3

\* The paths the lists are made of: plain and zero-padded numbers, one
\* basename in two folders, names that start with '!', '@' or a digit, a name
\* for which natural_sort_key raises ValueError.
SortPaths ==
  { <<"f", "1">>, <<"f", "2">>, <<"f", "1", "0">>, <<"f", "0", "1">>,
    <<"a", "/", "f", "2">>,
    <<"!", "2">>, <<"!", "1", "0">>, <<"!", "c">>, <<"@", "c">>,
    <<"d", "/", "!", "c">>, <<"1", "a">>, <<"1", "²">> }

\* The values of priority_chars: none, the default, two characters.
PriorityCharsValues == { <<>>, <<"!">>, <<"!", "@">> }

InitSort ==
  /\ \E l \in SeqsUpTo(SortPaths, MaxImages), n \in BOOLEAN,
        pc \in PriorityCharsValues :
       sortCall = [image_files |-> l, use_natural_sort |-> n,
                   priority_chars |-> pc,
                   returned |-> FALSE, raised |-> FALSE, result |-> <<>>]
  /\ IdleCalls
  /\ IdleFind
  /\ IdleZip
  /\ IdlePdf
  /\ IdleProc
  /\ IdleMain

\* The call sort_images(image_files, use_natural_sort, priority_chars).
CallSortImages ==
  /\ ~sortCall.returned
  /\ LET r == sort_images(sortCall.image_files, sortCall.use_natural_sort,
                          sortCall.priority_chars)
     IN sortCall' = [sortCall EXCEPT !.returned = TRUE, !.raised = r.raised,
                                     !.result = r.value]
  /\ UNCHANGED <<callVars, findVars, zipVars, pdfVars, procVars, mainVars>>

NextSort == CallSortImages

SpecSort == InitSort /\ [][NextSort]_vars

(***************************************************************************)
(* Claims about sort_images                                                *)
(***************************************************************************)

\* The basename of path starts with a character of chars.
StartsWithOneOf(path, chars) ==
  LET name == PathName(path)
  IN name # <<>> /\ \E k \in 1..Len(chars) : name[1] = chars[k]

\* x and y agree up to a place where each goes on with a run of digits, and
\* the run of x is the smaller number.
NumberBefore(x, y) ==
  \E p \in 0..Len(x) :
    /\ p <= Len(y)
    /\ SubSeq(x, 1, p) = SubSeq(y, 1, p)
    /\ p = 0 \/ ~IsDigit(x[p])
    /\ LET rx == SubSeq(x, p + 1, Len(x))
           ry == SubSeq(y, p + 1, Len(y))
           dx == RunLen(rx, TRUE)
           dy == RunLen(ry, TRUE)
       IN /\ dx > 0
          /\ dy > 0
          /\ IntOf(SubSeq(rx, 1, dx)) < IntOf(SubSeq(ry, 1, dy))

\* C1: in the list sort_images returns, every path whose basename starts with
\* a character of priority_chars comes before every path whose basename does
\* not, for every input list, priority_chars and use_natural_sort.
C1_PriorityFirst ==
  (sortCall.returned /\ ~sortCall.raised) =>
    \A i, j \in 1..Len(sortCall.result) :
      ( /\ StartsWithOneOf(sortCall.result[i], sortCall.priority_chars)
        /\ ~StartsWithOneOf(sortCall.result[j], sortCall.priority_chars) )
      => i < j

\* A returned list with a priority path in front of a path that every sort
\* key (natural and by name) puts first.
C1_Witness ==
  /\ sortCall.returned /\ ~sortCall.raised
  /\ \E i, j \in 1..Len(sortCall.result) :
       /\ i < j
       /\ StartsWithOneOf(sortCall.result[i], sortCall.priority_chars)
       /\ ~StartsWithOneOf(sortCall.result[j], sortCall.priority_chars)
       /\ StrLess(PathName(sortCall.result[j]), PathName(sortCall.result[i]))
       /\ ListCmp(natural_sort_key(PathName(sortCall.result[j])),
                  natural_sort_key(PathName(sortCall.result[i]))) = "lt"

\* C2: with use_natural_sort = TRUE, two paths of one group (priority or
\* normal) whose basenames differ first in a run of digits are placed by the
\* value of the run, the smaller number first, whatever the input order:
\* 'f2' comes before 'f10'.
C2_DigitRunsByValue ==
  (sortCall.returned /\ ~sortCall.raised /\ sortCall.use_natural_sort) =>
    \A i, j \in 1..Len(sortCall.result) :
      ( /\ StartsWithOneOf(sortCall.result[i], sortCall.priority_chars)
           = StartsWithOneOf(sortCall.result[j], sortCall.priority_chars)
        /\ NumberBefore(PathName(sortCall.result[i]),
                        PathName(sortCall.result[j])) )
      => i < j

\* 'f10' was given before 'f2' and 'f2' is returned before 'f10'.
C2_Witness ==
  /\ sortCall.returned /\ ~sortCall.raised /\ sortCall.use_natural_sort
  /\ sortCall.image_files = << <<"f", "1", "0">>, <<"f", "2">> >>
  /\ sortCall.result = << <<"f", "2">>, <<"f", "1", "0">> >>

\* The two paths are of one group: both priority or both normal.
SameGroup(x, y) ==
  StartsWithOneOf(x, sortCall.priority_chars)
    = StartsWithOneOf(y, sortCall.priority_chars)

\* The two paths have equal sort keys under the call's use_natural_sort.
EqualKeys(x, y) ==
  ListCmp(SortKey(x, sortCall.use_natural_sort),
          SortKey(y, sortCall.use_natural_sort)) = "eq"

\* C12 (as claimed): with use_natural_sort = TRUE, two basenames of one group
\* whose natural keys are equal because they differ only in zero padding
\* ('f01' and 'f1') are returned in the order of raw string comparison of the
\* names, whatever their order in the input.
C12_EqualKeysByRawString ==
  (sortCall.returned /\ ~sortCall.raised /\ sortCall.use_natural_sort) =>
    \A i, j \in 1..Len(sortCall.result) :
      ( /\ i < j
        /\ SameGroup(sortCall.result[i], sortCall.result[j])
        /\ EqualKeys(sortCall.result[i], sortCall.result[j])
        /\ PathName(sortCall.result[i]) # PathName(sortCall.result[j]) )
      => StrLess(PathName(sortCall.result[i]), PathName(sortCall.result[j]))

\* The elements of seq that are x or y, in their order.
Only(seq, x, y) == SelectSeq(seq, LAMBDA e : e = x \/ e = y)

C14_Idempotent ==
  (sortCall.returned /\ ~sortCall.raised) =>
    LET again == sort_images(sortCall.result, sortCall.use_natural_sort,
                             sortCall.priority_chars)
    IN ~again.raised /\ again.value = sortCall.result

\* A call that reordered a list of three with two normal paths of equal keys.
C14_Witness ==
  /\ sortCall.returned /\ ~sortCall.raised
  /\ Len(sortCall.result) = 3
  /\ sortCall.result # sortCall.image_files
  /\ \E i, j \in 1..3 :
       /\ i < j
       /\ sortCall.result[i] # sortCall.result[j]
       /\ ~StartsWithOneOf(sortCall.result[i], sortCall.priority_chars)
       /\ ~StartsWithOneOf(sortCall.result[j], sortCall.priority_chars)
       /\ EqualKeys(sortCall.result[i], sortCall.result[j])

\* C15: with use_natural_sort = FALSE each group is in the order of plain
\* string comparison of the basenames ('f1' < 'f10' < 'f2'), and the input
\* ['f10', 'f1', '!c'] with priority_chars '!' gives ['!c', 'f1', 'f10'].
C15_PlainStringOrder ==
  (sortCall.returned /\ ~sortCall.use_natural_sort) =>
    /\ ~sortCall.raised
    /\ \A i, j \in 1..Len(sortCall.result) :
         (i < j /\ SameGroup(sortCall.result[i], sortCall.result[j]))
         => ~StrLess(PathName(sortCall.result[j]), PathName(sortCall.result[i]))
    /\ ( /\ sortCall.image_files = << <<"f", "1", "0">>, <<"f", "1">>, <<"!", "c">> >>
         /\ sortCall.priority_chars = <<"!">> )
       => sortCall.result = << <<"!", "c">>, <<"f", "1">>, <<"f", "1", "0">> >>

\* 'f2', 'f10', 'f1' sorted by name: 'f10' is returned before 'f2'.
C15_Witness ==
  /\ sortCall.returned /\ ~sortCall.use_natural_sort
  /\ sortCall.image_files = << <<"f", "2">>, <<"f", "1", "0">>, <<"f", "1">> >>
  /\ sortCall.result = << <<"f", "1">>, <<"f", "1", "0">>, <<"f", "2">> >>

\* How often x occurs in seq.
Count(seq, x) == Cardinality({k \in 1..Len(seq) : seq[k] = x})

\* C16: with an empty priority_chars no path is treated as priority: the
\* returned list is the whole input in the order of the selected key, and a
\* name such as '!c' stands where its key puts it among all the names.
C16_EmptyPriorityOneList ==
  (sortCall.returned /\ ~sortCall.raised /\ sortCall.priority_chars = <<>>) =>
    /\ \A x \in SortPaths :
         Count(sortCall.result, x) = Count(sortCall.image_files, x)
    /\ \A i, j \in 1..Len(sortCall.result) :
         i < j =>
           ListCmp(SortKey(sortCall.result[i], sortCall.use_natural_sort),
                   SortKey(sortCall.result[j], sortCall.use_natural_sort))
             \in {"lt", "eq"}

\* With no priority characters and natural sort, '1a' is returned before
\* '!c', which was given first.
C16_Witness ==
  /\ sortCall.returned /\ ~sortCall.raised
  /\ sortCall.priority_chars = <<>>
  /\ sortCall.image_files = << <<"!", "c">>, <<"1", "a">> >>
  /\ sortCall.result = << <<"1", "a">>, <<"!", "c">> >>

\* C30: the list sort_images returns is a permutation of the input: each path
\* occurs in it as many times as in the input, none is dropped, added or
\* altered, whatever use_natural_sort and priority_chars are.
C30_ResultIsPermutation ==
  (sortCall.returned /\ ~sortCall.raised) =>
    /\ Len(sortCall.result) = Len(sortCall.image_files)
    /\ \A k \in 1..Len(sortCall.image_files) :
         Count(sortCall.result, sortCall.image_files[k])
           = Count(sortCall.image_files, sortCall.image_files[k])
    /\ \A k \in 1..Len(sortCall.result) :
         Count(sortCall.image_files, sortCall.result[k]) > 0

\* 'f2' given twice with '!c' between: the result has '!c' once and 'f2'
\* twice.
C30_Witness ==
  /\ sortCall.returned /\ ~sortCall.raised
  /\ sortCall.image_files = << <<"f", "2">>, <<"!", "c">>, <<"f", "2">> >>
  /\ sortCall.priority_chars = <<"!">>
  /\ sortCall.result = << <<"!", "c">>, <<"f", "2">>, <<"f", "2">> >>

(***************************************************************************)
(* is_image_file called alone                                              *)
(***************************************************************************)

MaxStemLen == 2

\* The characters a name starts with.
StemChars == {"a", ".", "/"}

\* What a name ends with: the allowed extensions, two of them in upper or
\* mixed case, other extensions, none, a trailing dot, an extension behind
\* an allowed one, an allowed extension without its dot.
Endings ==
  { <<".", "j", "p", "g">>, <<".", "J", "P", "G">>, <<".", "j", "p", "e", "g">>,
    <<".", "p", "n", "g">>, <<".", "P", "n", "g">>, <<".", "g", "i", "f">>,
    <<".", "b", "m", "p">>, <<".", "t", "i", "f", "f">>,
    <<".", "w", "e", "b", "p">>, <<".", "t", "x", "t">>, <<".", "g", "z">>,
    <<".", "j", "p", "g", ".", "g", "z">>, <<".", "j", "p", "g", ".">>,
    <<"j", "p", "g">>, <<>> }

ImageNames ==
  {stem \o ending : stem \in SeqsUpTo(StemChars, MaxStemLen), ending \in Endings}

InitImage ==
  /\ \E name \in ImageNames :
       imageCall = [filename |-> name, returned |-> FALSE, result |-> FALSE]
  /\ IdleSort
  /\ IdleKeyCall
  /\ IdleFind
  /\ IdleZip
  /\ IdlePdf
  /\ IdleProc
  /\ IdleMain

\* The call is_image_file(filename).
CallIsImageFile ==
  /\ ~imageCall.returned
  /\ imageCall' = [imageCall EXCEPT !.returned = TRUE,
                                    !.result = is_image_file(imageCall.filename)]
  /\ UNCHANGED <<sortVars, keyCall, findVars, zipVars, pdfVars, procVars,
                 mainVars>>

NextImage == CallIsImageFile

SpecImage == InitImage /\ [][NextImage]_vars

\* The text of name from the last '.' behind its last '/', empty if there is
\* no such '.'.
FinalExtension(name) ==
  LET slashes == {i \in 1..Len(name) : name[i] = "/"}
      start   == IF slashes = {} THEN 0
                 ELSE CHOOSE i \in slashes : \A j \in slashes : j <= i
      dots    == {i \in (start + 1)..Len(name) : name[i] = "."}
  IN IF dots = {} THEN <<>>
     ELSE SubSeq(name, CHOOSE i \in dots : \A j \in dots : j <= i, Len(name))

\* C24: is_image_file(name) is true exactly when the final extension of the
\* name, compared without regard to case, is one of .jpg, .jpeg, .png, .gif,
\* .bmp, .tiff, .webp; a name with no extension, with another final
\* extension or with a trailing dot is not an image.
C24_ImageIffFinalExtension ==
  imageCall.returned =>
    (imageCall.result <=>
       Lower(FinalExtension(imageCall.filename)) \in IMAGE_EXTENSIONS)

\* C25: a filename that is only an allowed extension ('.jpg', '.png') is
\* classified as an image.
C25_ExtensionOnlyIsImage ==
  (imageCall.returned /\ imageCall.filename \in IMAGE_EXTENSIONS) =>
    imageCall.result

(***************************************************************************)
(* natural_sort_key called alone                                           *)
(***************************************************************************)

MaxTextLen == 3

\* A letter, two decimal digits, a digit character that is not decimal.
KeyChars == {"a", "0", "1", "²"}

KeyTexts == SeqsUpTo(KeyChars, MaxTextLen)

InitKey ==
  /\ \E text \in KeyTexts :
       keyCall = [text |-> text, returned |-> FALSE, raised |-> FALSE,
                  key |-> <<>>]
  /\ IdleSort
  /\ IdleImageCall
  /\ IdleFind
  /\ IdleZip
  /\ IdlePdf
  /\ IdleProc
  /\ IdleMain

\* The call natural_sort_key(text).
CallNaturalSortKey ==
  /\ ~keyCall.returned
  /\ LET key == natural_sort_key(keyCall.text)
     IN keyCall' = [keyCall EXCEPT !.returned = TRUE,
                                   !.raised = KeyRaises(key),
                                   !.key = IF KeyRaises(key) THEN <<>> ELSE key]
  /\ UNCHANGED <<sortVars, imageCall, findVars, zipVars, pdfVars, procVars,
                 mainVars>>

NextKey == CallNaturalSortKey

SpecKey == InitKey /\ [][NextKey]_vars

\* The number of maximal runs of decimal digits in text.
DigitRuns(text) ==
  Cardinality({i \in 1..Len(text) :
                 IsDecimal(text[i]) /\ (i = 1 \/ ~IsDecimal(text[i - 1]))})

\* C26, as stated: the number of segments of the key is odd if and only if
\* the filename starts and ends with non-digit characters.
C26_OddIffNonDigitEnds ==
  (keyCall.returned /\ ~keyCall.raised) =>
    ( Len(keyCall.key) % 2 = 1
      <=> ( /\ keyCall.text # <<>>
            /\ ~IsDecimal(keyCall.text[1])
            /\ ~IsDecimal(keyCall.text[Len(keyCall.text)]) ) )

\* C26, amended: the number of segments of the key is always odd, one more
\* than twice the number of digit runs; the first segment is the empty
\* string exactly when the filename is empty or starts with a digit, the
\* last one exactly when it is empty or ends with a digit.
C26_SegmentCountAlwaysOdd ==
  (keyCall.returned /\ ~keyCall.raised) =>
    LET text == keyCall.text
        key  == keyCall.key
    IN /\ Len(key) % 2 = 1
       /\ Len(key) = 2 * DigitRuns(text) + 1
       /\ key[1] = <<"str", <<>>>> <=> (text = <<>> \/ IsDecimal(text[1]))
       /\ key[Len(key)] = <<"str", <<>>>>
            <=> (text = <<>> \/ IsDecimal(text[Len(text)]))

\* The key of 'a1' has three segments, 'a', 1 and the empty string.
C26_Witness ==
  /\ keyCall.returned
  /\ keyCall.text = <<"a", "1">>
  /\ keyCall.key = << <<"str", <<"a">>>>, <<"int", 1>>, <<"str", <<>>>> >>

\* C29: the key natural_sort_key returns has a string at every even position
\* and an integer at every odd one, positions counted from 0, so the keys of
\* two filenames have segments of the same type at the same position and the
\* comparison of keys in sort_images never meets an int and a string.
C29_SegmentTypesAlternate ==
  (keyCall.returned /\ ~keyCall.raised) =>
    /\ \A i \in 1..Len(keyCall.key) :
         keyCall.key[i][1] = IF i % 2 = 1 THEN "str" ELSE "int"
    /\ \A other \in KeyTexts :
         /\ ~KeyRaises(natural_sort_key(other))
              => ListCmp(keyCall.key, natural_sort_key(other)) # "TypeError"
         /\ sort_images(<<keyCall.text, other>>, TRUE, <<>>).exc # "TypeError"

\* The key of '1a' is the empty string, 1 and 'a'; it is compared with the
\* key of 'a1', which starts with 'a', and is the lesser.
C29_Witness ==
  /\ keyCall.returned /\ ~keyCall.raised
  /\ keyCall.text = <<"1", "a">>
  /\ keyCall.key = << <<"str", <<>>>>, <<"int", 1>>, <<"str", <<"a">>>> >>
  /\ ListCmp(keyCall.key, natural_sort_key(<<"a", "1">>)) = "lt"

(***************************************************************************)
(* extract_images_from_zip                                                 *)
(***************************************************************************)

\* The most entries an archive of the model has.
MaxEntries == 3

\* MAX_FILES_IN_ZIP of shared/constants.py, where it is 10000: scaled down so
\* that an archive of the model can hold more image entries than it allows.
MAX_FILES_IN_ZIP == 2

\* The entries archives are made of (ZipInfo: filename, file_size): images,
\* one of them in a folder, one with an upper-case extension, one of the
\* greatest size allowed; a path with a '..' segment, an absolute path, a
\* name with '..' inside; a text file; a directory.
ZipEntries ==
  { [filename |-> <<"p", "2", ".", "j", "p", "g">>, file_size |-> 1],
    [filename |-> <<"p", "1", "0", ".", "J", "P", "G">>, file_size |-> 1],
    [filename |-> <<"!", "c", ".", "p", "n", "g">>, file_size |-> 1],
    [filename |-> <<"d", "/", "p", "2", ".", "j", "p", "g">>, file_size |-> 1],
    [filename |-> <<".", ".", "/", "x", ".", "j", "p", "g">>, file_size |-> 1],
    [filename |-> <<"/", "x", ".", "j", "p", "g">>, file_size |-> 1],
    [filename |-> <<"a", ".", ".", "b", ".", "j", "p", "g">>, file_size |-> 1],
    [filename |-> <<"n", ".", "t", "x", "t">>, file_size |-> 1],
    [filename |-> <<"d", "/">>, file_size |-> 0],
    [filename |-> <<"g", ".", "j", "p", "g">>,
     file_size |-> MAX_EXTRACTED_SIZE_BYTES] }

\* ZipInfo.is_dir()
is_dir(file_info) == file_info.filename[Len(file_info.filename)] = "/"

\* A path check without the test for an absolute path.
suspicious_path_relative_only(filename) == Contains(filename, <<".", ".">>)

\* The path traversal check of the first pass.
suspicious_path(filename) ==
  Contains(filename, <<".", ".">>) \/ StartsWith(filename, <<"/">>)

\* A size check that looks at the entry alone, not at the running total.
exceeds_extracted_size_per_file(total, file_info) ==
  file_info.file_size > MAX_EXTRACTED_SIZE_BYTES

\* The ZIP bomb check of the first pass, on the running total.
exceeds_extracted_size(total, file_info) == total > MAX_EXTRACTED_SIZE_BYTES

InitExtract ==
  /\ zip_file \in
       {[open |-> "ok", filelist |-> l] : l \in SeqsUpTo(ZipEntries, MaxEntries)}
       \cup {[open |-> "BadZipFile", filelist |-> <<>>],
             [open |-> "OSError", filelist |-> <<>>]}
  /\ use_natural_sort \in BOOLEAN
  /\ priority_chars = DEFAULT_PRIORITY_CHARS
  /\ xpc = "unopened"
  /\ xidx = 0
  /\ total_extracted_size = 0
  /\ image_file_infos = <<>>
  /\ image_files = <<>>
  /\ written = <<>>
  /\ xresult = <<>>
  /\ xerror = "none"
  /\ IdleSort
  /\ IdleCalls
  /\ IdleFind
  /\ IdlePdf
  /\ IdleProc
  /\ IdleMain

\* Except clauses with none but except zipfile.BadZipFile.
except_clause_bad_zip_only(exc) ==
  IF exc = "BadZipFile" THEN "BadZipFile" ELSE "uncaught"

\* Except clauses without the last one, except Exception.
except_clause_without_catch_all(exc) ==
  CASE exc = "BadZipFile" -> "BadZipFile"
    [] exc = "ValueError" -> "ValueError"
    [] OTHER -> "uncaught"

\* The except clause of extract_images_from_zip that catches an exception:
\* zipfile.BadZipFile, ValueError, then Exception for every other one
\* (OSError, TypeError, ...).
except_clause(exc) ==
  CASE exc = "BadZipFile" -> "BadZipFile"
    [] exc = "ValueError" -> "ValueError"
    [] OTHER -> "Exception"

\* An exception is raised inside the try block: the clause that catches it
\* returns []; an exception no clause catches leaves the function.
ExtractFails(exc) ==
  /\ xerror' = except_clause(exc)
  /\ xresult' = <<>>
  /\ xpc' = IF except_clause(exc) = "uncaught" THEN "raised" ELSE "done"

\* zipfile.ZipFile(zip_path, 'r')
OpenZip ==
  /\ xpc = "unopened"
  /\ IF zip_file.open = "ok"
       THEN xpc' = "validating" /\ xidx' = 1 /\ UNCHANGED <<xresult, xerror>>
       ELSE /\ ExtractFails(zip_file.open)
            /\ UNCHANGED xidx
  /\ UNCHANGED <<zip_file, use_natural_sort, priority_chars,
                 total_extracted_size, image_file_infos, image_files, written>>
  /\ UNCHANGED <<sortVars, callVars, findVars, pdfVars, procVars, mainVars>>

\* One turn of the first pass. image_file_infos holds the ZipInfo objects,
\* here their places in the filelist.
ValidateEntry ==
  /\ xpc = "validating"
  /\ xidx <= Len(zip_file.filelist)
  /\ LET file_info == zip_file.filelist[xidx]
         total     == total_extracted_size + file_info.file_size
     IN IF is_dir(file_info) \/ suspicious_path(file_info.filename)
             \/ ~is_image_file(file_info.filename)
          THEN /\ xidx' = xidx + 1
               /\ UNCHANGED <<total_extracted_size, image_file_infos, xpc,
                              xresult, xerror>>
          ELSE /\ total_extracted_size' = total
               /\ IF exceeds_extracted_size(total, file_info)
                    THEN /\ ExtractFails("ValueError")
                         /\ UNCHANGED <<xidx, image_file_infos>>
                    ELSE /\ image_file_infos' = Append(image_file_infos, xidx)
                         /\ xidx' = xidx + 1
                         /\ UNCHANGED <<xpc, xresult, xerror>>
  /\ UNCHANGED <<zip_file, use_natural_sort, priority_chars, image_files, written>>
  /\ UNCHANGED <<sortVars, callVars, findVars, pdfVars, procVars, mainVars>>

\* After the first pass: the file count check and the empty archive.
CheckCount ==
  /\ xpc = "validating"
  /\ xidx > Len(zip_file.filelist)
  /\ LET total_images == Len(image_file_infos)
     IN IF total_images > MAX_FILES_IN_ZIP
          THEN ExtractFails("ValueError") /\ UNCHANGED xidx
          ELSE IF total_images = 0
            THEN /\ xresult' = <<>>
                 /\ xpc' = "done"
                 /\ UNCHANGED <<xidx, xerror>>
            ELSE /\ xpc' = "extracting"
                 /\ xidx' = 1
                 /\ UNCHANGED <<xresult, xerror>>
  /\ UNCHANGED <<zip_file, use_natural_sort, priority_chars,
                 total_extracted_size, image_file_infos, image_files, written>>
  /\ UNCHANGED <<sortVars, callVars, findVars, pdfVars, procVars, mainVars>>

\* One turn of the second pass. zip_ref.extract writes the file, or raises
\* (OSError: no space left, permission denied; BadZipFile: truncated or
\* corrupt member data) before or after it created the file.
ExtractEntry ==
  /\ xpc = "extracting"
  /\ xidx <= Len(image_file_infos)
  /\ LET entry     == image_file_infos[xidx]
         file_info == zip_file.filelist[entry]
         file      == [entry  |-> entry,
                       target |-> ExtractTarget(temp_dir, file_info.filename)]
     IN \E outcome \in {"extracted", "raised", "raised_writing"},
           exc \in {"OSError", "BadZipFile"} :
          IF outcome = "extracted"
            THEN /\ written' = Append(written, file)
                 /\ image_files' =
                      Append(image_files, PathJoin(temp_dir, file_info.filename))
                 /\ xidx' = xidx + 1
                 /\ UNCHANGED <<xpc, xresult, xerror>>
            ELSE /\ written' = IF outcome = "raised_writing"
                                 THEN Append(written, file) ELSE written
                 /\ ExtractFails(exc)
                 /\ UNCHANGED <<xidx, image_files>>
  /\ UNCHANGED <<zip_file, use_natural_sort, priority_chars,
                 total_extracted_size, image_file_infos>>
  /\ UNCHANGED <<sortVars, callVars, findVars, pdfVars, procVars, mainVars>>

\* A second pass that may end before every entry is extracted.
CloseZipEarly ==
  /\ xpc = "extracting"
  /\ xpc' = "sorting"
  /\ UNCHANGED <<zip_file, use_natural_sort, priority_chars, xidx,
                 total_extracted_size, image_file_infos, image_files, written,
                 xresult, xerror>>
  /\ UNCHANGED <<sortVars, callVars, findVars, pdfVars, procVars, mainVars>>

\* The second pass is over and the archive is closed.
CloseZip ==
  /\ xpc = "extracting"
  /\ xidx > Len(image_file_infos)
  /\ xpc' = "sorting"
  /\ UNCHANGED <<zip_file, use_natural_sort, priority_chars, xidx,
                 total_extracted_size, image_file_infos, image_files, written,
                 xresult, xerror>>
  /\ UNCHANGED <<sortVars, callVars, findVars, pdfVars, procVars, mainVars>>

\* sorted_images = sort_images(...); return [Path(img) for img in sorted_images]
SortExtracted ==
  /\ xpc = "sorting"
  /\ LET sorted_images == sort_images(image_files, use_natural_sort, priority_chars)
     IN IF sorted_images.raised
          THEN ExtractFails(sorted_images.exc)
          ELSE /\ xresult' = [i \in 1..Len(sorted_images.value) |->
                                PathStr(sorted_images.value[i])]
               /\ xpc' = "done"
               /\ UNCHANGED xerror
  /\ UNCHANGED <<zip_file, use_natural_sort, priority_chars, xidx,
                 total_extracted_size, image_file_infos, image_files, written>>
  /\ UNCHANGED <<sortVars, callVars, findVars, pdfVars, procVars, mainVars>>

NextExtract ==
  \/ OpenZip
  \/ ValidateEntry
  \/ CheckCount
  \/ ExtractEntry
  \/ CloseZip
  \/ SortExtracted

SpecExtract == InitExtract /\ [][NextExtract]_vars

(***************************************************************************)
(* Claims about extract_images_from_zip                                    *)
(***************************************************************************)

\* The components of a path with every '..' applied to what precedes it.
RECURSIVE Resolve(_)
Resolve(parts) ==
  IF parts = <<>> THEN <<>>
  ELSE LET front == Resolve(SubSeq(parts, 1, Len(parts) - 1))
           last  == parts[Len(parts)]
       IN IF last # <<".", ".">> THEN Append(front, last)
          ELSE IF front = <<>> THEN <<>>
          ELSE SubSeq(front, 1, Len(front) - 1)

\* path names a file below the directory dir (both absolute).
IsInside(dir, path) ==
  LET d == Resolve(PathParts(dir))
      f == Resolve(PathParts(path))
  IN /\ path # <<>> /\ path[1] = "/"
     /\ Len(f) > Len(d)
     /\ SubSeq(f, 1, Len(d)) = d

Entries == 1..Len(zip_file.filelist)

FilenameOf(i) == zip_file.filelist[i].filename

\* The name ends, in any letter case, with an extension of the allow-list.
HasAllowedExtension(name) ==
  \E e \in IMAGE_EXTENSIONS :
    /\ Len(name) >= Len(e)
    /\ Lower(SubSeq(name, Len(name) - Len(e) + 1, Len(name))) = e

\* The declared path has a parent-directory segment.
HasParentSegment(name) ==
  \E k \in 1..Len(SplitSlash(name)) : SplitSlash(name)[k] = <<".", ".">>

IsAbsolute(name) == name # <<>> /\ name[1] = "/"

\* The entries C3 calls qualifying, the limits aside: not a directory, an
\* allowed extension, no parent-directory segment, not absolute.
Qualifying ==
  {i \in Entries :
     /\ FilenameOf(i)[Len(FilenameOf(i))] # "/"
     /\ HasAllowedExtension(FilenameOf(i))
     /\ ~HasParentSegment(FilenameOf(i))
     /\ ~IsAbsolute(FilenameOf(i))}

\* The entries that pass the first pass as it is written: those of Qualifying
\* with no '..' anywhere in the declared path.
Accepted == {i \in Qualifying : ~Contains(FilenameOf(i), <<".", ".">>)}

RECURSIVE DeclaredSize(_)
DeclaredSize(S) ==
  IF S = {} THEN 0
  ELSE LET i == CHOOSE x \in S : TRUE
       IN zip_file.filelist[i].file_size + DeclaredSize(S \ {i})

WithinLimits(S) ==
  /\ DeclaredSize(S) <= MAX_EXTRACTED_SIZE_BYTES
  /\ Cardinality(S) <= MAX_FILES_IN_ZIP

\* How often path occurs in the returned list.
TimesReturned(path) == Cardinality({k \in 1..Len(xresult) : xresult[k] = path})

\* The archive was read and no extraction raised.
ReadWithoutError ==
  zip_file.open = "ok" /\ xerror \notin {"Exception", "BadZipFile"}

\* C3 (as claimed): for an archive of N qualifying images within the limits
\* and M other entries, the call returns exactly N paths, one per qualifying
\* entry, none with an extension outside the allow-list.
C3_OnePathPerQualifying ==
  (xpc = "done" /\ ReadWithoutError /\ WithinLimits(Qualifying)) =>
    /\ Len(xresult) = Cardinality(Qualifying)
    /\ \A i \in Qualifying :
         TimesReturned(PathJoin(temp_dir, FilenameOf(i)))
           = Cardinality({j \in Qualifying : FilenameOf(j) = FilenameOf(i)})
    /\ \A k \in 1..Len(xresult) : HasAllowedExtension(xresult[k])

Traversing ==
  {i \in Entries : HasParentSegment(FilenameOf(i)) \/ IsAbsolute(FilenameOf(i))}

\* C5 (as claimed): an entry whose declared path has a parent-directory
\* segment or is absolute is never extracted and never returned, and it does
\* not end the call: every other qualifying entry of the archive is still
\* extracted and returned (the limits holding and no extraction raising).
C5_TraversalSkipped ==
  /\ \A k \in 1..Len(written) : written[k].entry \notin Traversing
  /\ \A i \in Traversing : TimesReturned(PathJoin(temp_dir, FilenameOf(i))) = 0
  /\ (xpc = "done" /\ ReadWithoutError /\ WithinLimits(Qualifying)
        /\ Traversing # {}) =>
       \A i \in Qualifying :
         /\ \E k \in 1..Len(written) : written[k].entry = i
         /\ TimesReturned(PathJoin(temp_dir, FilenameOf(i))) > 0

\* C6: every file the call writes and every path it returns lies inside the
\* scratch directory.
C6_InsideScratch ==
  /\ \A k \in 1..Len(written) : IsInside(temp_dir, written[k].target)
  /\ \A k \in 1..Len(xresult) : IsInside(temp_dir, xresult[k])

\* Two files were written and returned, one of them in a folder, from an
\* archive that also holds an entry pointing out of the scratch directory.
C6_Witness ==
  /\ xpc = "done"
  /\ Len(xresult) = 2
  /\ Len(written) = 2
  /\ \E k \in 1..2 : Len(PathParts(xresult[k])) = 3
  /\ Traversing # {}

MaxPages == 3

\* The image files on disk. kind says how Pillow fares with the file:
\*   "ok"            it opens and its pixel data loads;
\*   "unidentified"  Image.open raises UnidentifiedImageError, an OSError;
\*   "truncated"     Image.open reads the header, and the first operation that
\*                   loads the pixel data raises OSError;
\*   "bomb"          Image.open raises DecompressionBombError, which is an
\*                   Exception and no OSError.
ImageFile(path) ==
  CASE path = "valid.jpg"     -> [kind |-> "ok", mode |-> "RGB"]
    [] path = "valid2.jpg"    -> [kind |-> "ok", mode |-> "RGB"]
    [] path = "alpha.png"     -> [kind |-> "ok", mode |-> "RGBA"]
    [] path = "palette.gif"   -> [kind |-> "ok", mode |-> "P"]
    [] path = "gray.jpg"      -> [kind |-> "ok", mode |-> "L"]
    [] path = "grayalpha.png" -> [kind |-> "ok", mode |-> "LA"]
    [] path = "cmyk.jpg"      -> [kind |-> "ok", mode |-> "CMYK"]
    [] path = "garbage.jpg"   -> [kind |-> "unidentified", mode |-> "none"]
    [] path = "cut.jpg"       -> [kind |-> "truncated", mode |-> "RGB"]
    [] path = "cutgray.jpg"   -> [kind |-> "truncated", mode |-> "L"]
    [] path = "huge.png"      -> [kind |-> "bomb", mode |-> "none"]

ImagePaths ==
  {"valid.jpg", "valid2.jpg", "alpha.png", "palette.gif", "gray.jpg",
   "grayalpha.png", "cmyk.jpg",
   "garbage.jpg", "cut.jpg", "cutgray.jpg", "huge.png"}

InitConvert ==
  /\ image_paths \in SeqsUpTo(ImagePaths, MaxPages)
  /\ cpc = "called"
  /\ cidx = 0
  /\ images = <<>>
  /\ output_pdf \in {[state |-> "absent", pages |-> <<>>],
                     [state |-> "old", pages |-> <<>>]}
  /\ dest_openable \in BOOLEAN
  /\ save_error = "none"
  /\ pdf_opened = FALSE
  /\ cret = "none"
  /\ IdleSort
  /\ IdleCalls
  /\ IdleFind
  /\ IdleZip
  /\ IdleProc
  /\ IdleMain

\* What one turn of the loop does with an image file: "page" (a page is
\* appended), "skip" (the inner except clause: OSError) or "abort" (any other
\* exception leaves the loop for the outer except clause).
\* An RGB image is appended as opened, its pixel data not loaded; every other
\* mode is loaded by convert, split or paste inside the inner try.
LoopOutcome(file) ==
  CASE file.kind = "unidentified" -> "skip"
    [] file.kind = "bomb" -> "abort"
    [] file.kind = "truncated" /\ file.mode # "RGB" -> "skip"
    [] OTHER -> "page"

\* A loop that converts every image that is not RGB with convert('RGB').
PageOfConvertOnly(path) ==
  [path |-> path,
   mode |-> "RGB",
   made |-> IF ImageFile(path).mode # "RGB" THEN "converted" ELSE "opened"]

\* The page the loop appends: the image as opened if it is RGB, pasted on a
\* white RGB background if its mode is RGBA, LA or P, else converted to RGB.
PageOf(path) ==
  LET mode == ImageFile(path).mode
  IN [path |-> path,
      mode |-> "RGB",
      made |-> IF mode \in {"RGBA", "LA", "P"} THEN "flattened"
               ELSE IF mode # "RGB" THEN "converted"
               ELSE "opened"]

\* A loop that puts each new page in front of the others.
collect_in_front(pages, page) == <<page>> \o pages

\* images.append(...)
collect(pages, page) == Append(pages, page)

\* Loading the page's pixel data raises: it was appended as opened and its
\* file is truncated.
LoadRaises(page) ==
  page.made = "opened" /\ ImageFile(page.path).kind = "truncated"

\* if not image_paths: return False
ConvertStart ==
  /\ cpc = "called"
  /\ IF image_paths = <<>>
       THEN cret' = "False" /\ cpc' = "done" /\ UNCHANGED cidx
       ELSE cpc' = "loop" /\ cidx' = 1 /\ UNCHANGED cret
  /\ UNCHANGED <<image_paths, images, output_pdf, dest_openable, save_error,
                 pdf_opened>>
  /\ UNCHANGED <<sortVars, callVars, findVars, zipVars, procVars, mainVars>>

\* One turn of the loop over image_paths.
ConvertImage ==
  /\ cpc = "loop"
  /\ cidx <= Len(image_paths)
  /\ LET img_path == image_paths[cidx]
         outcome  == LoopOutcome(ImageFile(img_path))
     IN IF outcome = "abort"
          THEN /\ cret' = "False"
               /\ cpc' = "done"
               /\ UNCHANGED <<cidx, images>>
          ELSE /\ images' = IF outcome = "page"
                              THEN collect(images, PageOf(img_path))
                              ELSE images
               /\ cidx' = cidx + 1
               /\ UNCHANGED <<cpc, cret>>
  /\ UNCHANGED <<image_paths, output_pdf, dest_openable, save_error, pdf_opened>>
  /\ UNCHANGED <<sortVars, callVars, findVars, zipVars, procVars, mainVars>>

\* if not images: return False
ConvertLoopEnd ==
  /\ cpc = "loop"
  /\ cidx > Len(image_paths)
  /\ IF images = <<>>
       THEN cret' = "False" /\ cpc' = "done"
       ELSE cpc' = "save" /\ UNCHANGED cret
  /\ UNCHANGED <<image_paths, cidx, images, output_pdf, dest_openable,
                 save_error, pdf_opened>>
  /\ UNCHANGED <<sortVars, callVars, findVars, zipVars, procVars, mainVars>>

\* An Image.save that opens the destination before it loads the first image.
save_loads_after_open(pages) == FALSE

\* Image.save loads the image it is called on before it opens the
\* destination: a first image that cannot be loaded raises there.
save_raises_before_open(pages) == LoadRaises(pages[1])

\* The file a failed write leaves at the destination: what was written so
\* far; nothing, if Image.save created the file and removes it again.
AfterFailedWrite ==
  {[state |-> "partial", pages |-> <<>>]}
  \cup (IF output_pdf.state = "absent"
          THEN {[state |-> "absent", pages |-> <<>>]} ELSE {})

\* first_image.save(str(output_pdf), 'PDF', save_all=True, ...), then
\* return True; any exception: return False.
SavePdf ==
  /\ cpc = "save"
  /\ cpc' = "done"
  /\ IF save_raises_before_open(images)
       THEN /\ save_error' = "load"
            /\ cret' = "False"
            /\ UNCHANGED <<output_pdf, pdf_opened>>
       ELSE IF ~dest_openable
         THEN /\ save_error' = "open"
              /\ cret' = "False"
              /\ UNCHANGED <<output_pdf, pdf_opened>>
         ELSE /\ pdf_opened' = TRUE
              /\ \E written_out \in BOOLEAN :
                   IF written_out /\ \A k \in 1..Len(images) : ~LoadRaises(images[k])
                     THEN /\ output_pdf' =
                               [state |-> "complete",
                                pages |-> [k \in 1..Len(images) |-> images[k].path]]
                          /\ save_error' = "none"
                          /\ cret' = "True"
                     ELSE /\ output_pdf' \in AfterFailedWrite
                          /\ save_error' =
                               IF \E k \in 1..Len(images) : LoadRaises(images[k])
                                 THEN "encode" ELSE "write"
                          /\ cret' = "False"
  /\ UNCHANGED <<image_paths, cidx, images, dest_openable>>
  /\ UNCHANGED <<sortVars, callVars, findVars, zipVars, procVars, mainVars>>

NextConvert ==
  \/ ConvertStart
  \/ ConvertImage
  \/ ConvertLoopEnd
  \/ SavePdf

SpecConvert == InitConvert /\ [][NextConvert]_vars

(***************************************************************************)
(* Claims about convert_images_to_pdf                                      *)
(***************************************************************************)

\* The image opens and its pixel data loads.
Decodes(path) == ImageFile(path).kind = "ok"

AlphaOrPalette(mode) == mode \in {"RGBA", "LA", "P"}

C8_OneDecodableSucceeds ==
  ( /\ cpc = "done"
    /\ \E k \in 1..Len(image_paths) : Decodes(image_paths[k])
    /\ save_error \notin {"open", "write"} )
  => cret = "True"

\* No image of image_paths decodes (image_paths may be empty).
NoneDecodes == \A k \in 1..Len(image_paths) : ~Decodes(image_paths[k])

\* C9: if image_paths is empty or none of its images decodes, the call
\* returns False and the destination is never opened for writing: no file is
\* created there and a file that is there stays as it was.
C9_NothingWrittenWithoutImage ==
  (cpc # "idle" /\ NoneDecodes) =>
    /\ ~pdf_opened
    /\ output_pdf \in {[state |-> "absent", pages |-> <<>>],
                       [state |-> "old", pages |-> <<>>]}
    /\ cpc = "done" => cret = "False"

\* The call ended after Image.save was tried on pages that cannot be loaded,
\* with a file at the destination that could have been overwritten.
C9_Witness ==
  /\ cpc = "done"
  /\ NoneDecodes
  /\ Len(images) = 2
  /\ dest_openable
  /\ output_pdf.state = "old"
  /\ cret = "False"

\* C10 (as claimed): if writing the document fails, the call returns False
\* and no partial or corrupt file is left at the destination.
C10_NoPartialFile ==
  (cpc = "done" /\ save_error # "none") =>
    /\ cret = "False"
    /\ output_pdf.state # "partial"

(***************************************************************************)
(* process_zip_file                                                        *)
(***************************************************************************)

\* The entries the archives given to process_zip_file are made of: a sound
\* image, a truncated one, a text file, an entry of the greatest size
\* allowed whose data is no image.
ProcessEntries ==
  { [filename |-> <<"p", "2", ".", "j", "p", "g">>, file_size |-> 1],
    [filename |-> <<"p", "1", "0", ".", "J", "P", "G">>, file_size |-> 1],
    [filename |-> <<"n", ".", "t", "x", "t">>, file_size |-> 1],
    [filename |-> <<"g", ".", "j", "p", "g">>,
     file_size |-> MAX_EXTRACTED_SIZE_BYTES] }

\* The image file extraction leaves at path, by the data of the entry.
ExtractedImage(path) ==
  CASE PathName(path) = <<"p", "2", ".", "j", "p", "g">> -> "valid.jpg"
    [] PathName(path) = <<"p", "1", "0", ".", "J", "P", "G">> -> "cut.jpg"
    [] OTHER -> "garbage.jpg"

\* The values of zip_path: a missing file, a file that is no .zip, a .zip
\* file one byte too large, an upper-case .ZIP of the greatest size allowed,
\* a small .zip.
ZipPathValues ==
  { [path |-> <<"a", ".", "z", "i", "p">>, exists |-> FALSE, st_size |-> 0],
    [path |-> <<"a", ".", "j", "p", "g">>, exists |-> TRUE, st_size |-> 1],
    [path |-> <<"a", ".", "z", "i", "p">>, exists |-> TRUE,
     st_size |-> MAX_FILE_SIZE_BYTES + 1],
    [path |-> <<"a", ".", "Z", "I", "P">>, exists |-> TRUE,
     st_size |-> MAX_FILE_SIZE_BYTES],
    [path |-> <<"a", ".", "z", "i", "p">>, exists |-> TRUE, st_size |-> 1],
    [path |-> <<"d", "/", "b", ".", "z", "i", "p">>, exists |-> TRUE,
     st_size |-> 1] }

\* What opening the file at a path gives: no file, or one of the archives.
ArchivesAt(zp) ==
  IF ~zp.exists THEN {[open |-> "OSError", filelist |-> <<>>]}
  ELSE {[open |-> "ok", filelist |-> l] : l \in SeqsUpTo(ProcessEntries, MaxEntries)}
       \cup {[open |-> "BadZipFile", filelist |-> <<>>]}

\* The values of output_dir: none given, a directory.
OutputDirValues == {None, <<"o">>}

\* An output path that is always beside the archive.
output_pdf_beside_archive(path, dir) ==
  PathJoin(PathParent(path), PathStem(path) \o <<".", "p", "d", "f">>)

\* if output_dir is None: output_dir = zip_path.parent
\* output_pdf = output_dir / f"{zip_path.stem}.pdf"
output_pdf_path(path, dir) ==
  PathJoin(IF dir = None THEN PathParent(path) ELSE dir,
           PathStem(path) \o <<".", "p", "d", "f">>)

\* A size check against the limit on extracted bytes.
file_too_large_for_extraction(file_size) == file_size > MAX_EXTRACTED_SIZE_BYTES

\* if file_size > MAX_FILE_SIZE_BYTES
file_too_large(file_size) == file_size > MAX_FILE_SIZE_BYTES

\* A cleanup that removes nothing.
rmtree_keeps(dir, raises) == dir

\* shutil.rmtree(temp_dir): the directory is removed, or the call raises and
\* the directory is still there.
rmtree(dir, raises) == IF raises THEN dir ELSE "removed"

\* The locals of a call of extract_images_from_zip that has not started, and
\* of convert_images_to_pdf, for a call of process_zip_file on the archive zf
\* with file out at the destination.
CalleesIdle(zf, out, openable) ==
  /\ zip_file = zf
  /\ use_natural_sort = TRUE
  /\ priority_chars = DEFAULT_PRIORITY_CHARS
  /\ xpc = "idle"
  /\ xidx = 0
  /\ total_extracted_size = 0
  /\ image_file_infos = <<>>
  /\ image_files = <<>>
  /\ written = <<>>
  /\ xresult = <<>>
  /\ xerror = "none"
  /\ image_paths = <<>>
  /\ cpc = "idle"
  /\ cidx = 0
  /\ images = <<>>
  /\ output_pdf = out
  /\ dest_openable = openable
  /\ save_error = "none"
  /\ pdf_opened = FALSE
  /\ cret = "none"

InitProcess ==
  /\ zip_path \in ZipPathValues
  /\ ppc = "called"
  /\ scratch = "none"
  /\ presult = "none"
  /\ warned = FALSE
  /\ pret = "none"
  /\ output_dir \in OutputDirValues
  /\ output_path = <<>>
  /\ \E zf \in ArchivesAt(zip_path), openable \in BOOLEAN,
        out \in {[state |-> "absent", pages |-> <<>>],
                 [state |-> "old", pages |-> <<>>]} :
       CalleesIdle(zf, out, openable)
  /\ IdleSort
  /\ IdleCalls
  /\ IdleFind
  /\ IdleMain

\* The checks of the path, tempfile.mkdtemp() and the call of
\* extract_images_from_zip.
ProcessStart ==
  /\ ppc = "called"
  /\ IF \/ ~zip_path.exists
        \/ Lower(PathSuffix(zip_path.path)) # <<".", "z", "i", "p">>
        \/ file_too_large(zip_path.st_size)
       THEN /\ pret' = "False"
            /\ ppc' = "done"
            /\ UNCHANGED <<scratch, xpc, output_path>>
       ELSE /\ output_path' = output_pdf_path(zip_path.path, output_dir)
            /\ scratch' = "exists"
            /\ ppc' = "extracting"
            /\ xpc' = "unopened"
            /\ UNCHANGED pret
  /\ UNCHANGED <<zip_path, presult, warned, output_dir>>
  /\ UNCHANGED <<zip_file, use_natural_sort, priority_chars, xidx,
                 total_extracted_size, image_file_infos, image_files, written,
                 xresult, xerror>>
  /\ UNCHANGED <<sortVars, callVars, findVars, pdfVars, mainVars>>

\* extract_images_from_zip has ended: an exception it raised passes through,
\* an empty list returns False, else convert_images_to_pdf is called.
ProcessAfterExtract ==
  /\ ppc = "extracting"
  /\ xpc \in {"done", "raised"}
  /\ IF xpc = "raised"
       THEN /\ presult' = "exception"
            /\ ppc' = "finally"
            /\ UNCHANGED <<image_paths, cpc>>
       ELSE IF xresult = <<>>
         THEN /\ presult' = "False"
              /\ ppc' = "finally"
              /\ UNCHANGED <<image_paths, cpc>>
         ELSE /\ image_paths' = [k \in 1..Len(xresult) |-> ExtractedImage(xresult[k])]
              /\ cpc' = "called"
              /\ ppc' = "composing"
              /\ UNCHANGED presult
  /\ UNCHANGED <<zip_path, scratch, warned, pret, output_dir, output_path>>
  /\ UNCHANGED <<cidx, images, output_pdf, dest_openable, save_error,
                 pdf_opened, cret>>
  /\ UNCHANGED <<sortVars, callVars, findVars, zipVars, mainVars>>

\* success = convert_images_to_pdf(image_paths, output_pdf); return success
ProcessAfterConvert ==
  /\ ppc = "composing"
  /\ cpc = "done"
  /\ presult' = cret
  /\ ppc' = "finally"
  /\ UNCHANGED <<zip_path, scratch, warned, pret, output_dir, output_path>>
  /\ UNCHANGED <<sortVars, callVars, findVars, zipVars, pdfVars, mainVars>>

\* A KeyboardInterrupt while the try block runs: no except clause of the
\* callee catches it (it is no Exception), the finally block runs.
Interrupt ==
  /\ \/ ppc = "extracting" /\ xpc \notin {"done", "raised"}
     \/ ppc = "composing" /\ cpc # "done"
  /\ presult' = "KeyboardInterrupt"
  /\ ppc' = "finally"
  /\ xpc' = IF ppc = "extracting" THEN "interrupted" ELSE xpc
  /\ cpc' = IF ppc = "composing" THEN "interrupted" ELSE cpc
  /\ UNCHANGED <<zip_path, scratch, warned, pret, output_dir, output_path>>
  /\ UNCHANGED <<zip_file, use_natural_sort, priority_chars, xidx,
                 total_extracted_size, image_file_infos, image_files, written,
                 xresult, xerror>>
  /\ UNCHANGED <<image_paths, cidx, images, output_pdf, dest_openable,
                 save_error, pdf_opened, cret>>
  /\ UNCHANGED <<sortVars, callVars, findVars, mainVars>>

\* The finally block: shutil.rmtree(temp_dir), a warning if it raises; then
\* the call ends as the try block did.
ProcessCleanup ==
  /\ ppc = "finally"
  /\ \E raises \in BOOLEAN :
       /\ scratch' = rmtree(scratch, raises)
       /\ warned' = raises
  /\ pret' = IF presult \in {"True", "False"} THEN presult ELSE "raised"
  /\ ppc' = "done"
  /\ UNCHANGED <<zip_path, presult, output_dir, output_path>>
  /\ UNCHANGED <<sortVars, callVars, findVars, zipVars, pdfVars, mainVars>>

NextProcess ==
  \/ ProcessStart
  \/ OpenZip
  \/ ValidateEntry
  \/ CheckCount
  \/ ExtractEntry
  \/ CloseZip
  \/ SortExtracted
  \/ ProcessAfterExtract
  \/ ConvertStart
  \/ ConvertImage
  \/ ConvertLoopEnd
  \/ SavePdf
  \/ ProcessAfterConvert
  \/ Interrupt
  \/ ProcessCleanup

SpecProcess == InitProcess /\ [][NextProcess]_vars

(***************************************************************************)
(* Claims about process_zip_file                                           *)
(***************************************************************************)

EndsWithZip(path) ==
  /\ Len(path) >= 4
  /\ Lower(SubSeq(path, Len(path) - 3, Len(path))) = <<".", "z", "i", "p">>

\* The path does not exist, is no .zip, or its file is larger than
\* MAX_FILE_SIZE_BYTES.
Rejected ==
  \/ ~zip_path.exists
  \/ ~EndsWithZip(zip_path.path)
  \/ zip_path.st_size > MAX_FILE_SIZE_BYTES

\* C18: when the path does not exist, its suffix is not .zip (in any letter
\* case) or its size on disk is greater than MAX_FILE_SIZE_BYTES,
\* process_zip_file returns False, and it neither opens the archive nor
\* creates a scratch directory.
C18_RejectedBeforeOpening ==
  (ppc # "idle" /\ Rejected) =>
    /\ xpc = "idle"
    /\ scratch = "none"
    /\ ppc = "done" => pret = "False"

\* A call on an existing .zip file one byte over the limit has returned False.
C18_Witness ==
  /\ ppc = "done"
  /\ pret = "False"
  /\ zip_path.exists
  /\ EndsWithZip(zip_path.path)
  /\ zip_path.st_size = MAX_FILE_SIZE_BYTES + 1

\* The failure kinds of one archive.
InvalidArchive == xpc = "done" /\ zip_file.open = "BadZipFile"

SecurityLimitExceeded == xpc = "done" /\ xerror = "ValueError"

NoQualifyingImage == xpc = "done" /\ zip_file.open = "ok" /\ Accepted = {}

DecodeFailure ==
  /\ cpc = "done"
  /\ image_paths # <<>>
  /\ NoneDecodes \/ save_error \in {"load", "encode"}

WriteFailure == cpc = "done" /\ save_error \in {"open", "write"}

DirOf(path) ==
  LET slashes == {i \in 1..Len(path) : path[i] = "/"}
  IN IF slashes = {} THEN <<>>
     ELSE SubSeq(path, 1, (CHOOSE i \in slashes : \A j \in slashes : j <= i) - 1)

\* The text of path after its last '/'.
BaseOf(path) ==
  IF DirOf(path) = <<>> /\ (path = <<>> \/ path[1] # "/") THEN path
  ELSE SubSeq(path, Len(DirOf(path)) + 2, Len(path))

\* The text of name before its last '.'.
WithoutExtension(name) ==
  LET dots == {i \in 1..Len(name) : name[i] = "."}
  IN IF dots = {} THEN name
     ELSE SubSeq(name, 1, (CHOOSE i \in dots : \A j \in dots : j <= i) - 1)

\* <directory>/<archive stem>.pdf, the directory being output_dir, or the
\* archive's own when output_dir is None.
ExpectedPdfPath ==
  LET dir  == IF output_dir = None THEN DirOf(zip_path.path) ELSE output_dir
      name == WithoutExtension(BaseOf(zip_path.path)) \o <<".", "p", "d", "f">>
  IN IF dir = <<>> THEN name ELSE dir \o <<"/">> \o name

\* C23: on success process_zip_file has written the PDF at
\* <output_dir>/<archive stem>.pdf, output_dir being the archive's parent
\* directory when none is given: the path is a function of the archive path
\* and output_dir alone.
C23_PdfBesideArchiveOrInOutputDir ==
  (ppc = "done" /\ pret = "True") =>
    /\ output_pdf.state = "complete"
    /\ output_path = ExpectedPdfPath

\* The archive d/b.zip was converted into o/b.pdf.
C23_Witness ==
  /\ ppc = "done"
  /\ pret = "True"
  /\ zip_path.path = <<"d", "/", "b", ".", "z", "i", "p">>
  /\ output_dir = <<"o">>
  /\ output_path = <<"o", "/", "b", ".", "p", "d", "f">>
  /\ output_pdf.state = "complete"

\* C21: when an archive has no qualifying image entry,
\* extract_images_from_zip returns an empty list without raising, and
\* process_zip_file then returns False; convert_images_to_pdf is not called
\* and no file is created at the output path.
C21_NoImageNoDocument ==
  (ppc # "idle" /\ zip_file.open = "ok" /\ Qualifying = {}) =>
    /\ xpc = "done" => (xresult = <<>> /\ xerror = "none")
    /\ xpc # "raised"
    /\ cpc = "idle"
    /\ ~pdf_opened
    /\ output_pdf.state \in {"absent", "old"}
    /\ (ppc = "done" /\ presult # "KeyboardInterrupt") => pret = "False"

\* The call on an archive of two text files has returned False, its scratch
\* directory removed and nothing at the destination.
C21_Witness ==
  /\ ppc = "done"
  /\ pret = "False"
  /\ Len(zip_file.filelist) = 2
  /\ Qualifying = {}
  /\ xpc = "done"
  /\ xerror = "none"
  /\ cpc = "idle"
  /\ output_pdf.state = "absent"
  /\ scratch = "removed"

\* C28: within one archive the phases run in the order validate, extract,
\* sort, compose, clean up. A file is written only after the first pass has
\* gone over every entry and found the qualifying ones within the limits;
\* an archive beyond the limits never has a file extracted; sorting starts
\* only when every qualifying entry has been extracted; composition starts
\* only when the sorted list has been returned; the scratch directory is
\* removed only when extraction and composition have ended.
C28_PhasesInOrder ==
  LET extracted == {written[k].entry : k \in 1..Len(written)}
  IN /\ written # <<>> =>
          /\ xpc \in {"extracting", "sorting", "done", "raised", "interrupted"}
          /\ {image_file_infos[k] : k \in 1..Len(image_file_infos)} = Qualifying
          /\ Len(image_file_infos) = Cardinality(Qualifying)
          /\ WithinLimits(Qualifying)
     /\ ~WithinLimits(Qualifying) =>
          /\ written = <<>>
          /\ xpc \notin {"extracting", "sorting"}
          /\ cpc = "idle"
     /\ (xpc = "sorting" \/ (xpc = "done" /\ xresult # <<>>)) =>
          /\ extracted = Qualifying
          /\ Len(image_files) = Cardinality(Qualifying)
     /\ cpc # "idle" =>
          /\ xpc = "done"
          /\ xresult # <<>>
          /\ Len(image_paths) = Len(xresult)
     /\ scratch = "removed" =>
          /\ ppc = "done"
          /\ xpc \in {"done", "raised", "interrupted"}
          /\ cpc \in {"idle", "done", "interrupted"}

\* An archive of two images and a text file went through every phase: both
\* images were extracted, the PDF was written, the directory was removed.
C28_Witness ==
  /\ ppc = "done"
  /\ pret = "True"
  /\ Len(zip_file.filelist) = 3
  /\ Cardinality(Qualifying) = 2
  /\ Len(written) = 2
  /\ Len(xresult) = 2
  /\ cpc = "done"
  /\ output_pdf.state = "complete"
  /\ scratch = "removed"

(***************************************************************************)
(* find_zip_files_recursive                                                *)
(***************************************************************************)

\* The most entries the tree below the directory has.
MaxTreeSize == 3

\* What the tree is made of, by path below the directory: archives with the
\* extension in lower, upper and mixed case, archives one and two levels
\* down, one beside the folder it shares its first letter with, a text
\* file, a folder named like an archive.
FindPool ==
  { [path |-> <<"a", ".", "z", "i", "p">>, is_file |-> TRUE],
    [path |-> <<"b", ".", "Z", "I", "P">>, is_file |-> TRUE],
    [path |-> <<"c", ".", "Z", "i", "p">>, is_file |-> TRUE],
    [path |-> <<"d", "/", "a", ".", "z", "i", "p">>, is_file |-> TRUE],
    [path |-> <<"d", "/", "d", "/", "a", ".", "z", "i", "p">>, is_file |-> TRUE],
    [path |-> <<"d", ".", "z", "i", "p">>, is_file |-> TRUE],
    [path |-> <<"n", ".", "t", "x", "t">>, is_file |-> TRUE],
    [path |-> <<"x", ".", "z", "i", "p">>, is_file |-> FALSE] }

\* The directories find_zip_files_recursive is called with: a readable one,
\* one where a step of the search raises OSError, a missing one.
Directories ==
  {[status |-> st, tree |-> t] :
     st \in {"ok", "unreadable"},
     t \in {t \in SUBSET FindPool : Cardinality(t) <= MaxTreeSize}}
  \cup {[status |-> "missing", tree |-> {}]}

\* The orders a set can be listed in.
Orders(S) ==
  {f \in [1..Cardinality(S) -> S] :
     \A i, j \in 1..Cardinality(S) : f[i] = f[j] => i = j}

\* fnmatch of a name against '*' followed by tail, letter case kept.
fnmatch_star(name, tail) ==
  /\ Len(name) >= Len(tail)
  /\ SubSeq(name, Len(name) - Len(tail) + 1, Len(name)) = tail

\* The paths directory.rglob(pattern) yields, for the pattern '*' + tail.
rglob(dir, tail) ==
  {e \in dir.tree : fnmatch_star(PathName(e.path), tail)}

\* Path.__lt__: the parts of the paths are compared as lists of str.
RECURSIVE PartsLess(_, _)
PartsLess(a, b) ==
  IF b = <<>> THEN FALSE
  ELSE IF a = <<>> THEN TRUE
  ELSE IF a[1] # b[1] THEN StrLess(a[1], b[1])
  ELSE PartsLess(Tail(a), Tail(b))

PathLess(p, q) == PartsLess(PathParts(p), PathParts(q))

\* sorted(zip_files)
RECURSIVE PathInsert(_, _)
PathInsert(sorted, x) ==
  IF sorted = <<>> THEN <<x>>
  ELSE IF PathLess(x, sorted[Len(sorted)])
    THEN PathInsert(SubSeq(sorted, 1, Len(sorted) - 1), x)
         \o <<sorted[Len(sorted)]>>
    ELSE Append(sorted, x)

RECURSIVE SortedPaths(_)
SortedPaths(paths) ==
  IF paths = <<>> THEN <<>>
  ELSE PathInsert(SortedPaths(SubSeq(paths, 1, Len(paths) - 1)),
                  paths[Len(paths)])

InitFind ==
  /\ directory \in Directories
  /\ fpc = "called"
  /\ zip_files = <<>>
  /\ found = <<>>
  /\ IdleSort
  /\ IdleCalls
  /\ IdleZip
  /\ IdlePdf
  /\ IdleProc
  /\ IdleMain

\* One loop over directory.rglob('*' + tail): the regular files among the
\* matches that are not in zip_files yet are appended, in the order the
\* file system lists them; in an unreadable directory a step may raise, and
\* except Exception ends the search with what was collected.
FindLoop(tail, next) ==
  \E order \in Orders({e \in rglob(directory, tail) :
                         /\ e.is_file
                         /\ \A k \in 1..Len(zip_files) : zip_files[k] # e.path}),
     raises \in {r \in BOOLEAN : r => directory.status = "unreadable"} :
    IF raises
      THEN \E n \in 0..Len(order) :
             /\ zip_files' = zip_files \o [k \in 1..n |-> order[k].path]
             /\ fpc' = "caught"
      ELSE /\ zip_files' = zip_files \o [k \in 1..Len(order) |-> order[k].path]
           /\ fpc' = next

\* for zip_path in directory.rglob('*.zip')
FindLower ==
  /\ fpc = "called"
  /\ FindLoop(<<".", "z", "i", "p">>, "upper")
  /\ UNCHANGED <<directory, found>>
  /\ UNCHANGED <<sortVars, callVars, zipVars, pdfVars, procVars, mainVars>>

\* for zip_path in directory.rglob('*.ZIP')
FindUpper ==
  /\ fpc = "upper"
  /\ FindLoop(<<".", "Z", "I", "P">>, "sorting")
  /\ UNCHANGED <<directory, found>>
  /\ UNCHANGED <<sortVars, callVars, zipVars, pdfVars, procVars, mainVars>>

\* return sorted(zip_files)
FindReturn ==
  /\ fpc \in {"sorting", "caught"}
  /\ found' = SortedPaths(zip_files)
  /\ fpc' = "done"
  /\ UNCHANGED <<directory, zip_files>>
  /\ UNCHANGED <<sortVars, callVars, zipVars, pdfVars, procVars, mainVars>>

NextFind ==
  \/ FindLower
  \/ FindUpper
  \/ FindReturn

SpecFind == InitFind /\ [][NextFind]_vars

\* The regular files of the tree whose extension is .zip in any letter case.
ZipFilesBelow ==
  {e.path : e \in {e \in directory.tree :
                     /\ e.is_file
                     /\ Lower(FinalExtension(e.path)) = <<".", "z", "i", "p">>}}

\* C27: find_zip_files_recursive returns every regular file below the
\* directory, at any depth, whose extension is .zip in any letter case, each
\* once and in sorted order; for a missing or unreadable directory it
\* returns a list and does not raise.
C27_FindsEveryZipOnce ==
  /\ fpc \in {"called", "upper", "sorting", "caught", "done"}
  /\ (fpc = "done" /\ directory.status = "ok") =>
       /\ {found[k] : k \in 1..Len(found)} = ZipFilesBelow
       /\ Len(found) = Cardinality(ZipFilesBelow)
       /\ \A i, j \in 1..Len(found) : i < j => PathLess(found[i], found[j])
  /\ (fpc = "done" /\ directory.status = "missing") => found = <<>>

(***************************************************************************)
(* main: the loop over the collected archives                              *)
(***************************************************************************)

\* The most archives main collects.
MaxArchives == 2

\* The files main collects (path.is_file() held for each): an archive with
\* one sound image, a .zip file that is no archive, a file that is no .zip,
\* an archive without image.
MainArchives ==
  { [zip_path |-> [path |-> <<"a", ".", "z", "i", "p">>, exists |-> TRUE,
                   st_size |-> 1],
     zip_file |-> [open |-> "ok",
                   filelist |-> << [filename |-> <<"p", "2", ".", "j", "p", "g">>,
                                    file_size |-> 1] >>]],
    [zip_path |-> [path |-> <<"a", ".", "z", "i", "p">>, exists |-> TRUE,
                   st_size |-> 1],
     zip_file |-> [open |-> "BadZipFile", filelist |-> <<>>]],
    [zip_path |-> [path |-> <<"a", ".", "j", "p", "g">>, exists |-> TRUE,
                   st_size |-> 1],
     zip_file |-> [open |-> "BadZipFile", filelist |-> <<>>]],
    [zip_path |-> [path |-> <<"a", ".", "z", "i", "p">>, exists |-> TRUE,
                   st_size |-> 1],
     zip_file |-> [open |-> "ok",
                   filelist |-> << [filename |-> <<"n", ".", "t", "x", "t">>,
                                    file_size |-> 1] >>]] }

\* A loop that is left at the first archive that fails.
next_archive_until_failure(idx, result, total_files) ==
  IF result = "False" THEN total_files + 1 ELSE idx + 1

\* for idx, zip_path in enumerate(zip_files_to_process, 1): the next turn,
\* whatever process_zip_file returned.
next_archive(idx, result, total_files) == idx + 1

\* main at line 417, the archives collected.
InitMain ==
  /\ zip_files_to_process \in SeqsUpTo(MainArchives, MaxArchives)
  /\ mpc = "collected"
  /\ midx = 0
  /\ success_count = 0
  /\ failure_count = 0
  /\ calls = <<>>
  /\ exit_status = "none"
  /\ IdleSort
  /\ IdleCalls
  /\ IdleFind
  /\ IdleZip
  /\ IdlePdf
  /\ IdleProc

\* if not zip_files_to_process: sys.exit(1); else the counters are set.
MainStart ==
  /\ mpc = "collected"
  /\ IF zip_files_to_process = <<>>
       THEN /\ exit_status' = "1"
            /\ mpc' = "exited"
            /\ UNCHANGED midx
       ELSE /\ mpc' = "loop"
            /\ midx' = 1
            /\ UNCHANGED exit_status
  /\ success_count' = 0
  /\ failure_count' = 0
  /\ UNCHANGED <<zip_files_to_process, calls>>
  /\ UNCHANGED <<sortVars, callVars, findVars, zipVars, pdfVars, procVars>>

\* One turn of the loop calls process_zip_file(zip_path, ...): a new call,
\* on the archive of this turn and the file at its destination.
MainCall ==
  /\ mpc = "loop"
  /\ midx <= Len(zip_files_to_process)
  /\ mpc' = "in_call"
  /\ calls' = Append(calls, [archive |-> midx, returned |-> "none"])
  /\ zip_path' = zip_files_to_process[midx].zip_path
  /\ ppc' = "called"
  /\ scratch' = "none"
  /\ presult' = "none"
  /\ warned' = FALSE
  /\ pret' = "none"
  /\ output_path' = <<>>
  /\ UNCHANGED output_dir
  /\ zip_file' = zip_files_to_process[midx].zip_file
  /\ xpc' = "idle"
  /\ xidx' = 0
  /\ total_extracted_size' = 0
  /\ image_file_infos' = <<>>
  /\ image_files' = <<>>
  /\ written' = <<>>
  /\ xresult' = <<>>
  /\ xerror' = "none"
  /\ image_paths' = <<>>
  /\ cpc' = "idle"
  /\ cidx' = 0
  /\ images' = <<>>
  /\ output_pdf' \in {[state |-> "absent", pages |-> <<>>],
                      [state |-> "old", pages |-> <<>>]}
  /\ dest_openable' \in BOOLEAN
  /\ save_error' = "none"
  /\ pdf_opened' = FALSE
  /\ cret' = "none"
  /\ UNCHANGED <<use_natural_sort, priority_chars>>
  /\ UNCHANGED <<zip_files_to_process, midx, success_count, failure_count,
                 exit_status>>
  /\ UNCHANGED <<sortVars, callVars, findVars>>

\* process_zip_file has ended: its value is counted and the loop goes on; an
\* exception that left it leaves main.
MainReturn ==
  /\ mpc = "in_call"
  /\ ppc = "done"
  /\ calls' = [calls EXCEPT ![Len(calls)].returned = pret]
  /\ IF pret = "raised"
       THEN /\ mpc' = "raised"
            /\ UNCHANGED <<midx, success_count, failure_count>>
       ELSE /\ mpc' = "loop"
            /\ midx' = next_archive(midx, pret, Len(zip_files_to_process))
            /\ success_count' = IF pret = "True" THEN success_count + 1
                                ELSE success_count
            /\ failure_count' = IF pret = "True" THEN failure_count
                                ELSE failure_count + 1
  /\ UNCHANGED <<zip_files_to_process, exit_status>>
  /\ UNCHANGED <<sortVars, callVars, findVars, zipVars, pdfVars, procVars>>

\* The loop is over: sys.exit(0 if failure_count == 0 else 1).
MainExit ==
  /\ mpc = "loop"
  /\ midx > Len(zip_files_to_process)
  /\ exit_status' = IF failure_count = 0 THEN "0" ELSE "1"
  /\ mpc' = "exited"
  /\ UNCHANGED <<zip_files_to_process, midx, success_count, failure_count, calls>>
  /\ UNCHANGED <<sortVars, callVars, findVars, zipVars, pdfVars, procVars>>

NextMain ==
  \/ MainStart
  \/ MainCall
  \/ ProcessStart
  \/ OpenZip
  \/ ValidateEntry
  \/ CheckCount
  \/ ExtractEntry
  \/ CloseZip
  \/ SortExtracted
  \/ ProcessAfterExtract
  \/ ConvertStart
  \/ ConvertImage
  \/ ConvertLoopEnd
  \/ SavePdf
  \/ ProcessAfterConvert
  \/ Interrupt
  \/ ProcessCleanup
  \/ MainReturn
  \/ MainExit

SpecMain == InitMain /\ [][NextMain]_vars

(***************************************************************************)
(* Claims about main                                                       *)
(***************************************************************************)

\* How many calls of process_zip_file ended with result.
Returned(result) ==
  Cardinality({k \in 1..Len(calls) : calls[k].returned = result})

\* C20: main calls process_zip_file exactly once for each collected archive,
\* in the order of collection and whatever the earlier calls returned; when
\* the loop ends success_count + failure_count is the number of collected
\* archives (success_count the calls that returned True, failure_count those
\* that returned False), and the exit status is 0 if and only if
\* failure_count is 0.
C20_EachArchiveOnceAndTally ==
  /\ Len(calls) <= Len(zip_files_to_process)
  /\ \A k \in 1..Len(calls) : calls[k].archive = k
  /\ (mpc = "exited" /\ zip_files_to_process # <<>>) =>
       /\ Len(calls) = Len(zip_files_to_process)
       /\ success_count = Returned("True")
       /\ failure_count = Returned("False")
       /\ success_count + failure_count = Len(zip_files_to_process)
       /\ exit_status = "0" <=> failure_count = 0
       /\ exit_status \in {"0", "1"}

\* main has exited after a first archive that failed and a second that
\* succeeded.
C20_Witness ==
  /\ mpc = "exited"
  /\ Len(calls) = 2
  /\ calls[1].returned = "False"
  /\ calls[2].returned = "True"
  /\ success_count = 1
  /\ failure_count = 1
  /\ exit_status = "1"

====
